---------------------------- MODULE Spec2Model ----------------------------
(***************************************************************************)
(* Personal ledger (src/main.py, src/category_manager.py): the CSV ledger  *)
(* store with its startup migration, the record operations of the GUI      *)
(* handlers (add, edit, delete), the date filter and the summaries.        *)
(*                                                                         *)
(* Text of the source is kept in ASCII here:                               *)
(*   column names  date, kind, category, amount, note, image               *)
(*                 (HEADERS, main.py:33)                                   *)
(*   kind values   "Expense" and "Income" (main.py:166).                   *)
(* A CSV file is a sequence of rows, a row a sequence of field texts; the  *)
(* first row is what csv.DictReader takes as the field names.              *)
(* A Python float is an integer here, kept to MantissaBits significant     *)
(* bits by FloatRound (IEEE-754 round-to-nearest-even; 53 bits in CPython).*)
(***************************************************************************)
EXTENDS Integers, Sequences, FiniteSets, TLC

\* ------------------------------------------------------------ bounds
\* Most data rows a ledger file holds in the model (appends stop there).
MaxRows == 3
\* Most data rows of a ledger file found at first launch.
MaxInitRows == 2
\* Significant bits of a float (53 in the program, scaled down).
MantissaBits == 2
\* Most launches of the program in one behaviour.
MaxLaunches == 2
\* Most I/O operations that fail in one behaviour.
MaxFailures == 1
\* Most categories added or deleted in the maintenance window in one launch.
MaxEdits == 2

\* ------------------------------------------------------------ texts
HEADERS == <<"date", "kind", "category", "amount", "note", "image">>

\* csv.DictReader's value for a field a short row lacks (restval)
NoneVal == "<None>"
\* csv.DictReader's key for the fields a long row has beyond the header
RestKey == "<restkey>"
\* the value under RestKey: a non-empty list (its content is never read)
RestVal == "<list>"

Range(s) == {s[i] : i \in DOMAIN s}

\* dict.get(key, default)
Get(d, k, default) == IF k \in DOMAIN d THEN d[k] ELSE default

\* Python truthiness of a field value: None and '' are false
Truthy(v) == v # "" /\ v # NoneVal

\* ------------------------------------------------------------ dates
\* datetime.strptime(text, '%Y-%m-%d'): the day as yyyymmdd, or 0 for
\* ValueError.  strptime accepts months and days without a leading zero.
Strptime(t) ==
  CASE t = "2024-01-05" -> 20240105
    [] t = "2024-1-20"  -> 20240120
    [] t = "2024-02-10" -> 20240210
    [] OTHER            -> 0

\* Python's order of str (code points), as a rank over the texts used as
\* dates: '' < '2024-01-05' < '2024-02-10' < '2024-1-20' < '2024-13-01'
LexRank(t) ==
  CASE t = ""           -> 0
    [] t = "2024-01-05" -> 1
    [] t = "2024-02-10" -> 2
    [] t = "2024-1-20"  -> 3
    [] t = "2024-13-01" -> 4
    [] OTHER            -> 5

\* ------------------------------------------------------------ floats
Abs(x) == IF x < 0 THEN -x ELSE x

RECURSIVE Pow2(_)
Pow2(n) == IF n = 0 THEN 1 ELSE 2 * Pow2(n - 1)

\* the unit in the last place of a float holding |x|: the least power of
\* two u with |x| < u * 2^MantissaBits
RECURSIVE UlpFrom(_, _)
UlpFrom(x, u) == IF x < u * Pow2(MantissaBits) THEN u ELSE UlpFrom(x, 2 * u)

Ulp(x) == UlpFrom(Abs(x), 1)

\* round-to-nearest, ties to the even mantissa
FloatRound(x) ==
  LET a == Abs(x)
      u == Ulp(x)
      q == a \div u
      r == a % u
      up == 2 * r > u \/ (2 * r = u /\ q % 2 = 1)
      m == IF up THEN (q + 1) * u ELSE q * u
  IN  IF x < 0 THEN -m ELSE m

\* the float nan (float('nan')): a value apart from every amount, which
\* every operation hands on and every comparison answers with False
NaN == -1000000

FloatAdd(a, b) == IF a = NaN \/ b = NaN THEN NaN ELSE FloatRound(a + b)
FloatSub(a, b) == IF a = NaN \/ b = NaN THEN NaN ELSE FloatRound(a - b)

\* a <= b and a == b of two floats
FloatLe(a, b) == a # NaN /\ b # NaN /\ a <= b
FloatEq(a, b) == a # NaN /\ b # NaN /\ a = b

\* float(text) succeeds
IsFloatText(t) == t \in {"0", "1", "1.0", "2.0", "3.0", "4.0", "-1.0", "nan"}

\* float(text), for a text float() accepts
FloatOf(t) ==
  CASE t = "0"    -> 0
    [] t = "1"    -> 1
    [] t = "1.0"  -> 1
    [] t = "2.0"  -> 2
    [] t = "3.0"  -> 3
    [] t = "4.0"  -> 4
    [] t = "-1.0" -> -1
    [] t = "nan"  -> NaN

\* str(x) of a float (what csv.writer writes and the tree shows)
FloatStr(x) == IF x = NaN THEN "nan" ELSE ToString(x) \o ".0"


\* ------------------------------------------------------------ csv
\* the index of the last field name equal to k (dict(zip(...)) keeps the
\* last value of a repeated key)
LastIndex(fns, k) ==
  CHOOSE i \in DOMAIN fns : fns[i] = k /\ \A j \in DOMAIN fns : fns[j] = k => j <= i

\* one row of csv.DictReader: the dict of a data row under field names fns
DictOfRow(fns, row) ==
  [k \in Range(fns) \cup (IF Len(row) > Len(fns) THEN {RestKey} ELSE {}) |->
     IF k \notin Range(fns) THEN RestVal
     ELSE IF LastIndex(fns, k) <= Len(row) THEN row[LastIndex(fns, k)]
     ELSE NoneVal]

\* list(csv.DictReader(file)): the first row gives the field names, blank
\* lines are skipped
DictReader(lines) ==
  IF lines = <<>> THEN <<>>
  ELSE LET fns  == lines[1]
           data == SelectSeq(Tail(lines), LAMBDA row : row # <<>>)
       IN  [i \in DOMAIN data |-> DictOfRow(fns, data[i])]

\* any(row.values())
AnyValue(d) == \E k \in DOMAIN d : Truthy(d[k])

\* float(record['amount']) raises: KeyError, TypeError (None) or ValueError
AmountRaises(d) == "amount" \notin DOMAIN d \/ ~IsFloatText(d["amount"])

\* record['amount'] = float(record['amount'])
WithFloatAmount(d) == [d EXCEPT !["amount"] = FloatOf(d["amount"])]

\* read_records(): [ok, records]; records is [] when the file is missing
\* and when any row's amount does not parse (the whole read fails)
ReadRecords(exists, lines) ==
  LET rows == SelectSeq(DictReader(lines), AnyValue)
  IN  IF ~exists THEN [ok |-> FALSE, records |-> <<>>]
      ELSE IF \E i \in DOMAIN rows : AmountRaises(rows[i])
      THEN [ok |-> FALSE, records |-> <<>>]
      ELSE [ok |-> TRUE, records |-> [i \in DOMAIN rows |-> WithFloatAmount(rows[i])]]

\* csv.DictWriter(fieldnames=HEADERS) raises ValueError for a dict with a
\* key that is no field name (extrasaction='raise')
WriterRaises(d) == ~(DOMAIN d \subseteq Range(HEADERS))

\* what csv.writer writes for a value: None as '', anything else as text
CsvText(v) == IF v = NoneVal THEN "" ELSE v

\* DictWriter.writerow of a record as read_records returns it (amount a
\* float): missing keys are written as '' (restval)
RowOfRecord(d) ==
  [i \in DOMAIN HEADERS |->
     IF HEADERS[i] \notin DOMAIN d THEN ""
     ELSE IF HEADERS[i] = "amount" THEN FloatStr(d["amount"])
     ELSE CsvText(d[HEADERS[i]])]

\* DictWriter.writerow of a dict whose values are all texts or None
RowOfRaw(d) ==
  [i \in DOMAIN HEADERS |-> IF HEADERS[i] \in DOMAIN d THEN CsvText(d[HEADERS[i]]) ELSE ""]

\* the six field values of a record as read, a missing field as ''
\* (record.get(h, ''))
Values(d) == [i \in DOMAIN HEADERS |-> Get(d, HEADERS[i], "")]

\* ------------------------------------------------------------ views
\* what the Treeview holds for a record: str() of record.get(h, '') for
\* each column (main.py:746); Tcl keeps every value as text
TreeValues(d) ==
  [i \in DOMAIN HEADERS |->
     LET k == HEADERS[i]
     IN  IF k \notin DOMAIN d THEN ""
         ELSE IF k = "amount" THEN FloatStr(d[k])
         ELSE IF d[k] = NoneVal THEN "None" ELSE d[k]]

\* build_record_from_values: dict(zip(HEADERS, values)), the amount parsed
\* back to a float, 0.0 when it does not parse
BuildRecordFromValues(values) ==
  [k \in Range(HEADERS) |->
     LET v == values[LastIndex(HEADERS, k)]
     IN  IF k = "amount" THEN (IF IsFloatText(v) THEN FloatOf(v) ELSE 0) ELSE v]

\* sorted(records, key=date, reverse=True): stable, so records of one date
\* keep their order
RECURSIVE InsertDesc(_, _)
InsertDesc(sorted, d) ==
  IF sorted = <<>> THEN <<d>>
  ELSE IF LexRank(Head(sorted)["date"]) >= LexRank(d["date"])
       THEN <<Head(sorted)>> \o InsertDesc(Tail(sorted), d)
       ELSE <<d>> \o sorted

RECURSIVE SortedByDateDesc(_)
SortedByDateDesc(records) ==
  IF records = <<>> THEN <<>>
  ELSE InsertDesc(SortedByDateDesc(SubSeq(records, 1, Len(records) - 1)),
                  records[Len(records)])

\* refresh_records_view: the rows of the tree, latest date first
RefreshRecordsView(records) ==
  LET sorted == SortedByDateDesc(records)
  IN  [i \in DOMAIN sorted |-> TreeValues(sorted[i])]

\* sum(...) of the builtin: 0 + x1 + x2 + ..., each addition rounded
RECURSIVE PySum(_)
PySum(xs) ==
  IF xs = <<>> THEN 0
  ELSE FloatAdd(PySum(SubSeq(xs, 1, Len(xs) - 1)), xs[Len(xs)])

OfKind(records, kind) == SelectSeq(records, LAMBDA r : Get(r, "kind", NoneVal) = kind)

Amounts(records) == [i \in DOMAIN records |-> records[i]["amount"]]

\* update_summary_view: total income, total expense, balance
UpdateSummaryViewSwapped(records) ==
  LET total_income  == PySum(Amounts(OfKind(records, "Income")))
      total_expense == PySum(Amounts(OfKind(records, "Expense")))
  IN  [income |-> total_income, expense |-> total_expense,
       balance |-> FloatSub(total_expense, total_income)]

UpdateSummaryView(records) ==
  LET total_income  == PySum(Amounts(OfKind(records, "Income")))
      total_expense == PySum(Amounts(OfKind(records, "Expense")))
  IN  [income |-> total_income, expense |-> total_expense,
       balance |-> FloatSub(total_income, total_expense)]

\* category_summary[record['category']] += record['amount'] on a
\* defaultdict(float): a dict keeps its keys in insertion order
AddTo(summary, key, amount) ==
  IF \E i \in DOMAIN summary : summary[i].key = key
  THEN [i \in DOMAIN summary |->
          IF summary[i].key = key
          THEN [key |-> key, value |-> FloatAdd(summary[i].value, amount)]
          ELSE summary[i]]
  ELSE Append(summary, [key |-> key, value |-> FloatAdd(0, amount)])

RECURSIVE CategorySummary(_)
CategorySummary(records) ==
  IF records = <<>> THEN <<>>
  ELSE LET r == records[Len(records)]
       IN  AddTo(CategorySummary(SubSeq(records, 1, Len(records) - 1)),
                 r["category"], r["amount"])

\* plot_pie: the category totals of the Expense records (no chart data
\* when there is no Expense record)
PlotPie(records) == CategorySummary(OfKind(records, "Expense"))

\* record['date'][:7], over the texts used as dates
Month(t) ==
  CASE t = "2024-01-05" -> "2024-01"
    [] t = "2024-02-10" -> "2024-02"
    [] t = "2024-1-20"  -> "2024-1-"
    [] t = "2024-13-01" -> "2024-13"
    [] OTHER            -> t

\* Python's order of str over the month keys
MonthRank(m) ==
  CASE m = "2024-01" -> 1
    [] m = "2024-02" -> 2
    [] m = "2024-1-" -> 3
    [] m = "2024-13" -> 4
    [] OTHER         -> 0

\* monthly_summary[month][record['kind']] += record['amount'] on a
\* defaultdict of {'Income': 0, 'Expense': 0} (every record that gets here
\* has one of the two kinds)
AddToMonth(summary, month, kind, amount) ==
  LET Added(e) == IF kind = "Income"
                  THEN [e EXCEPT !.income = FloatAdd(e.income, amount)]
                  ELSE [e EXCEPT !.expense = FloatAdd(e.expense, amount)]
  IN  IF \E i \in DOMAIN summary : summary[i].month = month
      THEN [i \in DOMAIN summary |->
              IF summary[i].month = month THEN Added(summary[i]) ELSE summary[i]]
      ELSE Append(summary, Added([month |-> month, income |-> 0, expense |-> 0]))

\* lines 555-558 and 869-872: the totals by month, in insertion order
RECURSIVE MonthlySummary(_)
MonthlySummary(records) ==
  IF records = <<>> THEN <<>>
  ELSE LET r == records[Len(records)]
       IN  AddToMonth(MonthlySummary(SubSeq(records, 1, Len(records) - 1)),
                      Month(r["date"]), r["kind"], r["amount"])

\* sorted(monthly_summary.keys()): the entries by ascending month key
RECURSIVE SortedMonths(_)
SortedMonths(summary) ==
  IF summary = <<>> THEN <<>>
  ELSE LET least == CHOOSE i \in DOMAIN summary :
                      \A j \in DOMAIN summary : MonthRank(summary[i].month) <= MonthRank(summary[j].month)
       IN  <<summary[least]>> \o
           SortedMonths(SubSeq(summary, 1, least - 1) \o SubSeq(summary, least + 1, Len(summary)))

Reversed(s) == [i \in DOMAIN s |-> s[Len(s) + 1 - i]]

\* update_monthly_summary_view: one row per month, the latest month first,
\* with the month's income, expense and balance
UpdateMonthlySummaryViewAscending(records) ==
  LET sorted_months == SortedMonths(MonthlySummary(records))
  IN  [i \in DOMAIN sorted_months |->
         [month   |-> sorted_months[i].month,
          income  |-> sorted_months[i].income,
          expense |-> sorted_months[i].expense,
          balance |-> FloatSub(sorted_months[i].income, sorted_months[i].expense)]]

UpdateMonthlySummaryView(records) ==
  LET sorted_months == Reversed(SortedMonths(MonthlySummary(records)))
  IN  [i \in DOMAIN sorted_months |->
         [month   |-> sorted_months[i].month,
          income  |-> sorted_months[i].income,
          expense |-> sorted_months[i].expense,
          balance |-> FloatSub(sorted_months[i].income, sorted_months[i].expense)]]

\* plot_bar_chart: the months in ascending order with their income and
\* expense bars (no chart data when there is no record)
PlotBarChart(records) ==
  LET sorted_months == SortedMonths(MonthlySummary(records))
  IN  [i \in DOMAIN sorted_months |->
         [month   |-> sorted_months[i].month,
          income  |-> sorted_months[i].income,
          expense |-> sorted_months[i].expense]]

\* ------------------------------------------------------------ categories
\* category names are kept in ASCII as well:
\*   Food 0x9910.., Transport 0x4EA4.., Shopping 0x8CFC.., Entertainment
\*   0x5A1B.., Household 0x5C45.., Misc 0x96DC.. (category_manager.py:6) and
\*   Pets 0x5BF5.., a name the user adds.
\* The value DEFAULT_CATEGORIES has when the module is loaded
DefaultCategories ==
  <<"Food", "Transport", "Shopping", "Entertainment", "Household", "Misc">>

\* Python's order of str over the category names: the order of the first
\* code points of the source's texts
NameRank(t) ==
  CASE t = "Transport"     -> 1
    [] t = "Entertainment" -> 2
    [] t = "Pets"          -> 3
    [] t = "Household"     -> 4
    [] t = "Shopping"      -> 5
    [] t = "Misc"          -> 6
    [] t = "Food"          -> 7
    [] OTHER               -> 0

\* str.strip() over the texts used as lines and entries
Strip(t) ==
  CASE t = " Pets " -> "Pets"
    [] t = " "      -> ""
    [] OTHER        -> t

\* sorted(names) of a list: duplicates stay
RECURSIVE InsertName(_, _)
InsertName(sorted, name) ==
  IF sorted = <<>> THEN <<name>>
  ELSE IF NameRank(Head(sorted)) <= NameRank(name)
       THEN <<Head(sorted)>> \o InsertName(Tail(sorted), name)
       ELSE <<name>> \o sorted

RECURSIVE SortNames(_)
SortNames(names) ==
  IF names = <<>> THEN <<>>
  ELSE InsertName(SortNames(SubSeq(names, 1, Len(names) - 1)), names[Len(names)])

\* list(set(names)) in the order of a first occurrence (sorted() follows)
RECURSIVE Distinct(_)
Distinct(names) ==
  IF names = <<>> THEN <<>>
  ELSE LET front == Distinct(SubSeq(names, 1, Len(names) - 1))
           name  == names[Len(names)]
       IN  IF name \in Range(front) THEN front ELSE Append(front, name)

\* the category file: exists, can be read as UTF-8 text, its lines
NoCategoryFile == [exists |-> FALSE, readable |-> TRUE, lines |-> <<>>]

CategoryFile(lines) == [exists |-> TRUE, readable |-> TRUE, lines |-> lines]

\* save_categories: the names without duplicates, sorted, one per line.
\* What becomes of the file: written in full (True), or the open fails and
\* the file is untouched, or a write fails part-way (False)
SaveCategoriesUnsorted(file, categories) ==
  LET unique_sorted_categories == Distinct(categories)
  IN  {[ok |-> TRUE, file |-> CategoryFile(unique_sorted_categories)]}
      \cup {[ok |-> FALSE, file |-> file]}
      \cup {[ok |-> FALSE, file |-> CategoryFile(SubSeq(unique_sorted_categories, 1, k))] :
              k \in 0..(Len(unique_sorted_categories) - 1)}

SaveCategories(file, categories) ==
  LET unique_sorted_categories == SortNames(Distinct(categories))
  IN  {[ok |-> TRUE, file |-> CategoryFile(unique_sorted_categories)]}
      \cup {[ok |-> FALSE, file |-> file]}
      \cup {[ok |-> FALSE, file |-> CategoryFile(SubSeq(unique_sorted_categories, 1, k))] :
              k \in 0..(Len(unique_sorted_categories) - 1)}

\* [line.strip() for line in f if line.strip()]
StrippedLines(lines) ==
  LET kept == SelectSeq(lines, LAMBDA line : Strip(line) # "")
  IN  [i \in DOMAIN kept |-> Strip(kept[i])]

\* load_categories with DEFAULT_CATEGORIES holding defaults.  What it
\* returns: the list, whether that list is the DEFAULT_CATEGORIES object
\* itself (lines 15 and 23 return the object, not a copy), the file
\* afterwards, whether this was the first use (no file) and whether the
\* save of the first use failed
LoadCategories(file, defaults) ==
  IF ~file.exists
  THEN {[list |-> defaults, is_default |-> TRUE, file |-> out.file,
         first_use |-> TRUE, failed |-> ~out.ok] : out \in SaveCategories(file, defaults)}
  ELSE IF ~file.readable
  THEN {[list |-> defaults, is_default |-> TRUE, file |-> file,
         first_use |-> FALSE, failed |-> FALSE]}
  ELSE {[list |-> SortNames(StrippedLines(file.lines)), is_default |-> FALSE, file |-> file,
         first_use |-> FALSE, failed |-> FALSE]}

\* lines 602-605: a record passes unless it is before start or after end
InRangeExclusive(day, start_date, end_date) ==
  /\ (start_date # 0 => day > start_date)
  /\ (end_date # 0 => day < end_date)

InRange(day, start_date, end_date) ==
  /\ ~(start_date # 0 /\ day < start_date)
  /\ ~(end_date # 0 /\ day > end_date)

\* the date filter of filter_and_refresh_data (lines 588-609): the records
\* to show; "abort" is the early return on start > end, "format_error" the
\* ValueError branch that shows every record (every layout has a date
\* column, so record['date'] never raises KeyError)
FilterRecords(all_records, start_date_str, end_date_str) ==
  LET start_date == IF start_date_str # "" THEN Strptime(start_date_str) ELSE 0
      end_date   == IF end_date_str # "" THEN Strptime(end_date_str) ELSE 0
      bad_bound  == \/ (start_date_str # "" /\ start_date = 0)
                    \/ (end_date_str # "" /\ end_date = 0)
  IN  IF bad_bound THEN [status |-> "format_error", records |-> all_records]
      ELSE IF start_date # 0 /\ end_date # 0 /\ start_date > end_date
      THEN [status |-> "abort", records |-> <<>>]
      ELSE IF start_date = 0 /\ end_date = 0
      THEN [status |-> "ok", records |-> all_records]
      ELSE IF \E i \in DOMAIN all_records : Strptime(all_records[i]["date"]) = 0
      THEN [status |-> "format_error", records |-> all_records]
      ELSE [status |-> "ok",
            records |-> SelectSeq(all_records,
                          LAMBDA r : InRange(Strptime(r["date"]), start_date, end_date))]

\* ------------------------------------------------------------ inputs
\* what the user types into the entry form: date, kind, category, amount,
\* note (the last two of these fail validation)
Entries ==
  { <<"2024-01-05", "Expense", "Food", "4.0", "lunch">>,
    <<"2024-02-10", "Expense", "Transport", "1", "">>,
    <<"2024-13-01", "Expense", "Food", "1.0", "">>,
    <<"2024-01-05", "Expense", "Food", "abc", "">> }

\* entries for the validation: a positive amount, nan, zero, a negative
\* amount, no number, no category, no date of the calendar
ValidationEntries ==
  { <<"2024-01-05", "Expense", "Food", "4.0", "lunch">>,
    <<"2024-02-10", "Expense", "Transport", "nan", "">>,
    <<"2024-02-10", "Expense", "Transport", "0", "">>,
    <<"2024-02-10", "Expense", "Transport", "-1.0", "">>,
    <<"2024-02-10", "Expense", "Transport", "abc", "">>,
    <<"2024-02-10", "Expense", "", "1.0", "">>,
    <<"2024-13-01", "Expense", "Transport", "1.0", "">> }

\* the stored name of an attached receipt image
ImagePaths == {"invoices/a.png"}

\* what the user types into the two filter fields
StartTexts == {"", "2024-1-20", "2024-13-01"}
EndTexts == {"", "2024-1-20", "2024-01-05"}

\* the header rows of the ledger file: the current one and the legacy ones
\* (no image column, no kind column, neither)
Layouts ==
  { HEADERS,
    <<"date", "kind", "category", "amount", "note">>,
    <<"date", "category", "amount", "note", "image">>,
    <<"date", "category", "amount", "note">> }

\* rows of a ledger file found at first launch, by their six logical fields;
\* written by an older version or by hand, so an amount need not be in
\* str(float) form
FoundRows ==
  { <<"2024-01-05", "Expense", "Food", "4.0", "lunch", "">>,
    <<"2024-02-10", "Expense", "Transport", "1", "", "invoices/a.png">> }

SeqsUpTo(S, n) == UNION {[1..k -> S] : k \in 0..n}

\* a row of six logical fields as a row of a file with the given header
Project(layout, fields) == [i \in DOMAIN layout |-> fields[LastIndex(HEADERS, layout[i])]]

\* the ledger files the program may find at first launch: none, an empty
\* one, or a header of some layout with a few rows
FoundFiles ==
  { [exists |-> FALSE, lines |-> <<>>], [exists |-> TRUE, lines |-> <<>>] }
  \cup { [exists |-> TRUE,
          lines |-> <<layout>> \o [i \in DOMAIN rows |-> Project(layout, rows[i])]] :
         layout \in Layouts, rows \in SeqsUpTo(FoundRows, MaxInitRows) }

\* rows of a ledger the program wrote itself (strptime accepts the date
\* 2024-1-20, so validation lets it in)
ViewRows ==
  { <<"2024-01-05", "Expense", "Food", "4.0", "lunch", "">>,
    <<"2024-02-10", "Expense", "Transport", "1.0", "", "invoices/a.png">>,
    <<"2024-1-20", "Income", "Misc", "2.0", "", "">>,
    <<"2024-01-05", "Expense", "Shopping", "2.0", "", "">> }

\* ledger files of the current layout
ViewFiles ==
  { [exists |-> TRUE, lines |-> <<HEADERS>> \o rows] : rows \in SeqsUpTo(ViewRows, MaxRows) }

\* the category files the program may find at first launch: none, one that
\* is not UTF-8 text, the one a first use writes, one edited by hand
WrittenCategoryFile == CategoryFile(SortNames(DefaultCategories))

FoundCategoryFiles ==
  { NoCategoryFile,
    [exists |-> TRUE, readable |-> FALSE, lines |-> <<>>],
    WrittenCategoryFile,
    CategoryFile(<<"Misc", " Pets ", "", "Food", "Misc">>) }

\* what the user types into the new-category field
NewCategoryTexts == {"", " Pets ", "Food"}

\* the image files that the rows of a file name
ImagesOf(lines) ==
  {p \in ImagePaths : \E i \in DOMAIN lines : \E j \in DOMAIN lines[i] : lines[i][j] = p}

\* ------------------------------------------------------------ state
VARIABLES
  csvExists,            \* records.csv exists
  csv,                  \* its rows
  backups,              \* the contents of the records.csv.<time>.bak files
  pc,                   \* where the process is
  old_records,          \* migrate_csv_if_needed: rows still to be written
  preMigration,         \* history: the file as this launch's migration found it
  tree,                 \* the rows of the record Treeview
  filtered_records,     \* the records the views were last refreshed with
  summary,              \* total income, total expense, balance shown
  pie,                  \* category totals of the pie chart
  start_date_entry,     \* the two filter fields
  end_date_entry,
  current_invoice_path, \* the image attached to the entry form ("" for None)
  invoice_files,        \* the image files in the invoices directory
  bar,                  \* months and bars of the bar chart
  monthly,              \* the rows of the monthly summary Treeview
  categories_file,      \* categories.txt
  DEFAULT_CATEGORIES,   \* the list object of category_manager.py:6
  categories,           \* AccountingApp.categories: a list of its own, or
                        \* the DEFAULT_CATEGORIES object (is_default)
  window,               \* CategoryMaintenanceWindow: its categories (a list of
                        \* its own or the DEFAULT_CATEGORIES object), its
                        \* listbox; history: the edits made since the launch
  loaded,               \* history: what the last load_categories returned
  launches,             \* times the program was started
  failures,             \* I/O operations that have failed
  last                  \* history: the last operation, its outcome and the record
                        \* it was about

fileVars == <<csvExists, csv>>
migVars == <<backups, old_records, preMigration>>
\* what filter_and_refresh_data writes: the views and, through
\* update_categories, the category list and its file
viewVars == <<tree, filtered_records, summary, pie, bar, monthly,
              categories_file, categories, loaded>>
shownVars == <<tree, filtered_records, summary, pie, bar, monthly>>
windowVars == <<DEFAULT_CATEGORIES, window>>
filterVars == <<start_date_entry, end_date_entry>>
imageVars == <<current_invoice_path, invoice_files>>

vars == <<csvExists, csv, backups, pc, old_records, preMigration, tree,
          filtered_records, summary, pie, start_date_entry, end_date_entry,
          current_invoice_path, invoice_files, bar, monthly, categories_file,
          DEFAULT_CATEGORIES, categories, window, loaded, launches, failures, last>>

\* an I/O operation may fail
MayFail == failures < MaxFailures
Fails == failures' = failures + 1
Succeeds == UNCHANGED failures

NoOp == [op |-> "none", status |-> "none", target |-> <<>>]
NoMigration == [running |-> FALSE, done |-> FALSE, lines |-> <<>>]
EmptySummary == [income |-> 0, expense |-> 0, balance |-> 0]
OwnList(list) == [is_default |-> FALSE, list |-> list]
TheDefaultList == [is_default |-> TRUE, list |-> <<>>]
NoWindow == [is_default |-> FALSE, list |-> <<>>, listbox |-> <<>>, edits |-> 0]
NotLoaded == [list |-> <<>>, is_default |-> FALSE, first_use |-> FALSE, failed |-> FALSE]

\* the widgets and fields of a freshly constructed AccountingApp
FreshApp ==
  /\ old_records = <<>>
  /\ preMigration = NoMigration
  /\ tree = <<>>
  /\ filtered_records = <<>>
  /\ summary = EmptySummary
  /\ pie = <<>>
  /\ bar = <<>>
  /\ monthly = <<>>
  /\ DEFAULT_CATEGORIES = DefaultCategories
  /\ categories = OwnList(<<>>)
  /\ window = NoWindow
  /\ loaded = NotLoaded
  /\ start_date_entry = ""
  /\ end_date_entry = ""
  /\ current_invoice_path = ""
  /\ last = NoOp

\* the first launch, the ledger file being one of files and the category
\* file one of category_files
Launch(files, category_files) ==
  /\ \E f \in files :
       /\ csvExists = f.exists
       /\ csv = f.lines
       /\ invoice_files = ImagesOf(f.lines)
  /\ categories_file \in category_files
  /\ backups = {}
  /\ pc = "start"
  /\ launches = 1
  /\ failures = 0
  /\ FreshApp

\* any ledger file
InitStartup == Launch(FoundFiles, {WrittenCategoryFile})

\* a ledger file that needs no migration
Init == Launch({f \in FoundFiles : f.lines = <<>> \/ f.lines[1] = HEADERS}, {WrittenCategoryFile})

\* a ledger of the current layout, for the filter and the summaries
InitView == Launch(ViewFiles, {WrittenCategoryFile})

\* ------------------------------------------------------------ refresh
\* update_summary_view indexes record['kind']: KeyError for the records of
\* a file without a kind column (date, category, amount are in every layout)
RefreshRaises(records) == \E i \in DOMAIN records : "kind" \notin DOMAIN records[i]

\* filter_and_refresh_data on the file (exists, lines) with the two filter
\* fields holding start and end: "abort" (early return, nothing refreshed),
\* "raised" (KeyError after the tree was refilled) or "done"
RefreshStatus(exists, lines, start, end) ==
  LET f == FilterRecords(ReadRecords(exists, lines).records, start, end)
  IN  IF f.status = "abort" THEN "abort"
      ELSE IF RefreshRaises(f.records) THEN "raised"
      ELSE "done"

\* update_categories, the category file being file:
\* self.categories = load_categories()
UpdateCategories(file) ==
  \E out \in LoadCategories(file, DEFAULT_CATEGORIES) :
     /\ categories_file' = out.file
     /\ categories' = IF out.is_default THEN TheDefaultList ELSE OwnList(out.list)
     /\ loaded' = [list |-> out.list, is_default |-> out.is_default,
                   first_use |-> out.first_use, failed |-> out.failed]

RefreshViews(exists, lines, start, end) ==
  LET f == FilterRecords(ReadRecords(exists, lines).records, start, end)
  IN  IF f.status = "abort" THEN UNCHANGED viewVars
      ELSE /\ tree' = RefreshRecordsView(f.records)
           /\ filtered_records' = f.records
           /\ IF RefreshRaises(f.records)
              THEN UNCHANGED <<summary, pie, bar, monthly, categories_file, categories, loaded>>
              ELSE /\ summary' = UpdateSummaryView(f.records)
                   /\ UpdateCategories(categories_file)
                   /\ pie' = PlotPie(f.records)
                   /\ bar' = PlotBarChart(f.records)
                   /\ monthly' = UpdateMonthlySummaryView(f.records)

\* ------------------------------------------------------------ startup
\* a row cut short by a write that failed part-way
Torn(row) == SubSeq(row, 1, 3)

\* line 64: the header is of an older layout
NeedsMigrationAlways(header) == Len(header) <= Len(HEADERS)

NeedsMigration(header) == Len(header) < Len(HEADERS)

\* migrate_csv_if_needed, lines 55-64: is the file of an older layout?
\* No file: return.  No header row: next(reader) raises StopIteration,
\* reported as a migration error.
MigrateCheck ==
  /\ pc = "start"
  /\ LET needed == csvExists /\ csv # <<>> /\ NeedsMigration(csv[1])
     IN  /\ pc' = IF needed THEN "backup" ELSE "init_csv"
         /\ preMigration' = IF needed
                            THEN [running |-> TRUE, done |-> FALSE, lines |-> csv]
                            ELSE preMigration
  /\ UNCHANGED <<fileVars, backups, old_records, viewVars, filterVars, imageVars,
                 windowVars, launches, failures, last>>

\* lines 66-74: shutil.copy to the backup, then the rows are read from it
MigrateBackupSkipped ==
  /\ pc = "backup"
  /\ old_records' = DictReader(csv)
  /\ pc' = "open"
  /\ UNCHANGED <<fileVars, backups, preMigration, viewVars, filterVars, imageVars,
                 windowVars, launches, failures, last>>

MigrateBackup ==
  /\ pc = "backup"
  /\ \/ /\ backups' = backups \cup {csv}
        /\ old_records' = DictReader(csv)
        /\ pc' = "open"
        /\ Succeeds
     \/ /\ MayFail /\ Fails                    \* the copy fails
        /\ \E k \in 0..(Len(csv) - 1) :
             backups' \in {backups, backups \cup {SubSeq(csv, 1, k)}}
        /\ pc' = "init_csv"
        /\ UNCHANGED old_records
  /\ UNCHANGED <<fileVars, preMigration, viewVars, filterVars, imageVars,
                 windowVars, launches, last>>

\* line 76: open(CSV_FILE, 'w') truncates the file
MigrateOpen ==
  /\ pc = "open"
  /\ \/ csv' = <<>> /\ pc' = "header" /\ Succeeds
     \/ MayFail /\ Fails /\ pc' = "init_csv" /\ UNCHANGED csv     \* the open fails
  /\ UNCHANGED <<csvExists, migVars, viewVars, filterVars, imageVars, windowVars, launches, last>>

\* line 78: writer.writeheader()
MigrateWriteHeader ==
  /\ pc = "header"
  /\ \/ csv' = <<HEADERS>> /\ pc' = "rows" /\ Succeeds
     \/ MayFail /\ Fails /\ pc' = "init_csv" /\ UNCHANGED csv     \* the write fails
  /\ UNCHANGED <<csvExists, migVars, viewVars, filterVars, imageVars, windowVars, launches, last>>

\* lines 80-87: the row of the current layout for a row of the old file
NewRecordKindKept(record) ==
  [k \in Range(HEADERS) |->
     CASE k = "kind"  -> Get(record, "kind", "")
       [] k = "image" -> Get(record, "image", "")
       [] OTHER       -> Get(record, k, NoneVal)]

NewRecord(record) ==
  [k \in Range(HEADERS) |->
     CASE k = "kind"  -> Get(record, "kind", "Expense")
       [] k = "image" -> Get(record, "image", "")
       [] OTHER       -> Get(record, k, NoneVal)]

\* lines 79-88: one writer.writerow(new_record)
MigrateWriteRow ==
  /\ pc = "rows"
  /\ old_records # <<>>
  /\ LET row == RowOfRaw(NewRecord(Head(old_records)))
     IN  \/ /\ csv' = Append(csv, row)
            /\ old_records' = Tail(old_records)
            /\ pc' = "rows"
            /\ Succeeds
         \/ /\ MayFail /\ Fails                         \* the write fails
            /\ csv' \in {csv, Append(csv, Torn(row))}
            /\ pc' = "init_csv"
            /\ UNCHANGED old_records
  /\ UNCHANGED <<csvExists, backups, preMigration, viewVars, filterVars, imageVars,
                 windowVars, launches, last>>

\* line 89: the rewrite is complete
MigrateDone ==
  /\ pc = "rows"
  /\ old_records = <<>>
  /\ pc' = "init_csv"
  /\ preMigration' = [preMigration EXCEPT !.done = TRUE]
  /\ UNCHANGED <<fileVars, backups, old_records, viewVars, filterVars, imageVars,
                 windowVars, launches, failures, last>>

\* init_csv: create the file with the header row if there is no file
InitCsv ==
  /\ pc = "init_csv"
  /\ IF csvExists
     THEN UNCHANGED fileVars /\ Succeeds
     ELSE \/ csvExists' = TRUE /\ csv' = <<HEADERS>> /\ Succeeds
          \/ MayFail /\ Fails /\ csvExists' = TRUE /\ csv' = <<>>   \* the write fails
          \/ MayFail /\ Fails /\ UNCHANGED fileVars                 \* the open fails
  /\ pc' = "refresh"
  /\ UNCHANGED <<migVars, viewVars, filterVars, imageVars, windowVars, launches, last>>

\* AccountingApp.__init__, line 523: the first filter_and_refresh_data; a
\* KeyError there ends the process
InitialRefresh ==
  /\ pc = "refresh"
  /\ RefreshViews(csvExists, csv, start_date_entry, end_date_entry)
  /\ pc' = IF RefreshStatus(csvExists, csv, start_date_entry, end_date_entry) = "raised"
           THEN "crashed" ELSE "ready"
  /\ UNCHANGED <<fileVars, migVars, filterVars, imageVars, windowVars, launches, failures, last>>

\* the user closes the program (or it has crashed) and starts it again
Restart ==
  /\ pc \in {"ready", "crashed"}
  /\ launches < MaxLaunches
  /\ launches' = launches + 1
  /\ pc' = "start"
  /\ old_records' = <<>>
  /\ preMigration' = NoMigration
  /\ tree' = <<>>
  /\ filtered_records' = <<>>
  /\ summary' = EmptySummary
  /\ pie' = <<>>
  /\ bar' = <<>>
  /\ monthly' = <<>>
  /\ DEFAULT_CATEGORIES' = DefaultCategories
  /\ categories' = OwnList(<<>>)
  /\ window' = NoWindow
  /\ loaded' = NotLoaded
  /\ start_date_entry' = ""
  /\ end_date_entry' = ""
  /\ current_invoice_path' = ""
  /\ last' = NoOp
  /\ UNCHANGED <<fileVars, backups, invoice_files, categories_file, failures>>

\* ------------------------------------------------------------ records
\* the validation of save_new_record and save_changes: the required fields
\* are there, the date parses, float() takes the amount and the result is
\* not <= 0
ValidEntry(e) ==
  /\ e[1] # "" /\ e[2] # "" /\ e[3] # "" /\ e[4] # ""
  /\ Strptime(e[1]) # 0
  /\ IsFloatText(e[4])
  /\ ~FloatLe(FloatOf(e[4]), 0)

\* record_data of save_new_record (line 775), the amount a float
RecordData(e, image_path) == <<e[1], e[2], e[3], FloatOf(e[4]), e[5], image_path>>

\* csv.writer.writerow(record_data)
RowOfDataSwapped(data) ==
  [i \in DOMAIN data |->
     IF i = 4 THEN FloatStr(data[i]) ELSE IF i = 5 THEN data[6]
     ELSE IF i = 6 THEN data[5] ELSE data[i]]

RowOfData(data) == [i \in DOMAIN data |-> IF i = 4 THEN FloatStr(data[i]) ELSE data[i]]

\* new_record of save_changes (lines 223-229): five keys, no image
NewRecordOfEdit(e, original) ==
  [k \in {"date", "kind", "category", "amount", "note"} |->
     CASE k = "date" -> e[1] [] k = "kind" -> e[2] [] k = "category" -> e[3]
       [] k = "amount" -> FloatOf(e[4]) [] OTHER -> e[5]]

\* the least index at which flags holds TRUE, 0 when there is none (the
\* loops stop matching at the first hit: 'and not found')
FirstTrue(flags) ==
  IF \E i \in DOMAIN flags : flags[i]
  THEN CHOOSE i \in DOMAIN flags : flags[i] /\ \A j \in 1..(i - 1) : ~flags[j]
  ELSE 0

LastTrue(flags) ==
  IF \E i \in DOMAIN flags : flags[i]
  THEN CHOOSE i \in DOMAIN flags : flags[i] /\ \A j \in (i + 1)..Len(flags) : ~flags[j]
  ELSE 0

\* record == original of two dicts read at different times: the same keys
\* with equal values, the amounts as floats
DictEq(record, original) ==
  record = original /\ FloatEq(record["amount"], original["amount"])

\* save_changes, line 236: record == self.original_record
EditFoundLast(all_records, original) ==
  LastTrue([i \in DOMAIN all_records |-> DictEq(all_records[i], original)])

EditFound(all_records, original) ==
  FirstTrue([i \in DOMAIN all_records |-> DictEq(all_records[i], original)])

\* delete_record, lines 678-683: the fields compared one by one, a missing
\* image read as ''
DeleteMatches(record, target) ==
  /\ record["date"] = target["date"]
  /\ record["kind"] = target["kind"]
  /\ record["category"] = target["category"]
  /\ FloatEq(record["amount"], target["amount"])
  /\ record["note"] = target["note"]
  /\ Get(record, "image", "") = Get(target, "image", "")

\* record['kind'] raises KeyError once the dates compare equal
DeleteRaises(all_records, target) ==
  \E i \in DOMAIN all_records :
     /\ all_records[i]["date"] = target["date"]
     /\ "kind" \notin DOMAIN all_records[i]

DeleteFoundLast(all_records, target) ==
  LastTrue([i \in DOMAIN all_records |-> DeleteMatches(all_records[i], target)])

DeleteFound(all_records, target) ==
  FirstTrue([i \in DOMAIN all_records |-> DeleteMatches(all_records[i], target)])

ReplaceAt(seq, p, x) == [i \in DOMAIN seq |-> IF i = p THEN x ELSE seq[i]]

RemoveAt(seq, p) == SubSeq(seq, 1, p - 1) \o SubSeq(seq, p + 1, Len(seq))

\* how many records DictWriter writes before one raises ValueError
Writable(records) ==
  IF \E i \in DOMAIN records : WriterRaises(records[i])
  THEN FirstTrue([i \in DOMAIN records |-> WriterRaises(records[i])]) - 1
  ELSE Len(records)

\* open(CSV_FILE, 'w'), writeheader, one row per record: what the file may
\* hold afterwards.  ok: every row was written.  Failures: the open fails
\* (file untouched), a record raises in DictWriter, or a write fails and
\* leaves the header with some of the rows, the last one possibly torn.
RewriteResults(current, records) ==
  LET rows == [i \in DOMAIN records |-> RowOfRecord(records[i])]
      n    == Writable(records)
      Out(ok, io, lines) == [ok |-> ok, io |-> io, lines |-> lines]
  IN  {Out(n = Len(records), FALSE, <<HEADERS>> \o SubSeq(rows, 1, n))}
      \cup {Out(FALSE, TRUE, current), Out(FALSE, TRUE, <<>>)}
      \cup {Out(FALSE, TRUE, <<HEADERS>> \o SubSeq(rows, 1, k)) : k \in 0..(n - 1)}
      \cup {Out(FALSE, TRUE, <<HEADERS>> \o SubSeq(rows, 1, k) \o <<Torn(rows[k + 1])>>) :
              k \in 0..(n - 1)}

\* save_changes, lines 231-249: what becomes of the file.  No match (p = 0):
\* the error is shown and the method returns before the file is opened.
UpdateOutcomes(current, all_records, p, new_record) ==
  IF p = 0
  THEN {[status |-> "not_found", io |-> FALSE, lines |-> current]}
  ELSE {[status |-> IF out.ok THEN "ok" ELSE "error", io |-> out.io, lines |-> out.lines] :
          out \in RewriteResults(current, ReplaceAt(all_records, p, new_record))}

\* delete_record, lines 675-704: the same for the delete
DeleteOutcomesNoReturn(current, all_records, p) ==
  IF p = 0
  THEN {[status |-> "not_found", io |-> out.io, lines |-> out.lines] :
          out \in RewriteResults(current, all_records)}
  ELSE {[status |-> IF out.ok THEN "ok" ELSE "error", io |-> out.io, lines |-> out.lines] :
          out \in RewriteResults(current, RemoveAt(all_records, p))}

DeleteOutcomes(current, all_records, p) ==
  IF p = 0
  THEN {[status |-> "not_found", io |-> FALSE, lines |-> current]}
  ELSE {[status |-> IF out.ok THEN "ok" ELSE "error", io |-> out.io, lines |-> out.lines] :
          out \in RewriteResults(current, RemoveAt(all_records, p))}

\* delete_record, lines 685-691: os.remove of the image the matched record
\* (at p, 0 for none) names.  What becomes of the image files, and what was
\* done: "none" (no match, or no image named), "removed", or "failed" (an
\* OSError, which is only logged)
ImageRemovalsSkipped(files, target, p) ==
  {[files |-> files, image |-> "none"]}

ImageRemovals(files, target, p) ==
  IF p = 0 \/ target["image"] = ""
  THEN {[files |-> files, image |-> "none"]}
  ELSE {[files |-> files, image |-> "failed"]}
       \cup (IF target["image"] \in files
             THEN {[files |-> files \ {target["image"]}, image |-> "removed"]}
             ELSE {})

\* ------------------------------------------------------------ handlers
\* attach_invoice_image: the chosen file is copied into the invoices
\* directory and remembered for the next new record
AttachInvoiceImage ==
  /\ pc = "ready"
  /\ \E p \in ImagePaths :
       \/ /\ invoice_files' = invoice_files \cup {p}
          /\ current_invoice_path' = p
          /\ Succeeds
       \/ /\ MayFail /\ Fails                    \* the copy fails
          /\ current_invoice_path' = ""
          /\ UNCHANGED invoice_files
  /\ last' = [op |-> "attach", status |-> "done", target |-> <<>>]
  /\ UNCHANGED <<fileVars, migVars, pc, viewVars, filterVars, windowVars, launches>>

\* save_new_record with the entry form holding e
SaveNewRecord(e) ==
  /\ pc = "ready"
  /\ Len(csv) <= MaxRows
  /\ IF ~ValidEntry(e)
     THEN /\ last' = [op |-> "append", status |-> "invalid", target |-> <<>>]
          /\ UNCHANGED <<fileVars, viewVars, current_invoice_path, failures>>
     ELSE LET data == RecordData(e, current_invoice_path)
          IN  \/ \* append_record_to_csv returns True
                 /\ csvExists' = TRUE
                 /\ csv' = Append(csv, RowOfData(data))
                 /\ Succeeds
                 /\ current_invoice_path' = ""
                 /\ RefreshViews(TRUE, csv', start_date_entry, end_date_entry)
                 /\ last' = [op |-> "append", status |-> "ok", target |-> data]
              \/ \* the open or the write fails: append_record_to_csv returns False
                 /\ MayFail /\ Fails
                 /\ \/ UNCHANGED fileVars
                    \/ csvExists' = TRUE /\ csv' = Append(csv, Torn(RowOfData(data)))
                 /\ last' = [op |-> "append", status |-> "error", target |-> data]
                 /\ UNCHANGED <<viewVars, current_invoice_path>>
  /\ UNCHANGED <<migVars, pc, filterVars, invoice_files, windowVars, launches>>

\* edit_record on row i of the tree, then EditRecordWindow.save_changes
\* with the form holding e
SaveChanges(i, e) ==
  /\ pc = "ready"
  /\ i \in DOMAIN tree
  /\ LET original_record == BuildRecordFromValues(tree[i])
         new_record      == NewRecordOfEdit(e, original_record)
         all_records     == ReadRecords(csvExists, csv).records
         p               == EditFound(all_records, original_record)
     IN  IF ~ValidEntry(e)
         THEN /\ last' = [op |-> "update", status |-> "invalid",
                          target |-> original_record]
              /\ UNCHANGED <<fileVars, viewVars, failures>>
         ELSE \E out \in UpdateOutcomes(csv, all_records, p, new_record) :
                /\ out.io => MayFail
                /\ failures' = IF out.io THEN failures + 1 ELSE failures
                /\ csv' = out.lines
                /\ UNCHANGED csvExists
                /\ IF out.status = "ok"
                   THEN RefreshViews(TRUE, out.lines, start_date_entry, end_date_entry)
                   ELSE UNCHANGED viewVars
                /\ last' = IF out.status = "ok"
                           THEN [op |-> "update", status |-> "ok",
                                 target |-> original_record, new |-> new_record]
                           ELSE [op |-> "update", status |-> out.status,
                                 target |-> original_record]
  /\ UNCHANGED <<migVars, pc, filterVars, imageVars, windowVars, launches>>

\* delete_record on row i of the tree (the user confirms)
DeleteRecord(i) ==
  /\ pc = "ready"
  /\ i \in DOMAIN tree
  /\ LET target      == BuildRecordFromValues(tree[i])
         all_records == ReadRecords(csvExists, csv).records
         p           == DeleteFound(all_records, target)
     IN  IF DeleteRaises(all_records, target)
         THEN /\ last' = [op |-> "delete", status |-> "error", target |-> target,
                          image |-> "none"]
              /\ UNCHANGED <<fileVars, viewVars, invoice_files, failures>>
         ELSE \E removal \in ImageRemovals(invoice_files, target, p),
                 out \in DeleteOutcomes(csv, all_records, p) :
                   /\ invoice_files' = removal.files
                   /\ out.io => MayFail
                   /\ failures' = IF out.io THEN failures + 1 ELSE failures
                   /\ csv' = out.lines
                   /\ UNCHANGED csvExists
                   /\ IF out.status = "ok"
                      THEN RefreshViews(TRUE, out.lines, start_date_entry, end_date_entry)
                      ELSE UNCHANGED viewVars
                   /\ last' = [op |-> "delete", status |-> out.status, target |-> target,
                               image |-> removal.image]
  /\ UNCHANGED <<migVars, pc, filterVars, current_invoice_path, windowVars, launches>>

\* the user fills the two filter fields and presses the filter button
FilterAndRefreshData(start, end) ==
  /\ pc = "ready"
  /\ start_date_entry' = start
  /\ end_date_entry' = end
  /\ RefreshViews(csvExists, csv, start, end)
  /\ last' = [op |-> "filter",
              status |-> FilterRecords(ReadRecords(csvExists, csv).records, start, end).status,
              target |-> <<>>]
  /\ UNCHANGED <<fileVars, migVars, pc, imageVars, windowVars, launches, failures>>

\* clear_filter_and_refresh
ClearFilterAndRefresh ==
  /\ pc = "ready"
  /\ start_date_entry' = ""
  /\ end_date_entry' = ""
  /\ RefreshViews(csvExists, csv, "", "")
  /\ last' = [op |-> "clear_filter", status |-> "done", target |-> <<>>]
  /\ UNCHANGED <<fileVars, migVars, pc, imageVars, windowVars, launches, failures>>

\* ------------------------------------------------------------ category window
\* the list that self.categories of the window refers to
WindowList == IF window.is_default THEN DEFAULT_CATEGORIES ELSE window.list

\* list.remove(name): the first occurrence goes
RemoveFirst(list, name) ==
  RemoveAt(list, FirstTrue([i \in DOMAIN list |-> list[i] = name]))

\* the window after self.categories became list: the list is written
\* through to DEFAULT_CATEGORIES when it is that object, and the listbox is
\* refilled (refresh_listbox)
WindowEdited(list) ==
  /\ window' = [is_default |-> window.is_default,
                list       |-> IF window.is_default THEN <<>> ELSE list,
                listbox    |-> SortNames(list),
                edits      |-> window.edits + 1]
  /\ DEFAULT_CATEGORIES' = IF window.is_default THEN list ELSE DEFAULT_CATEGORIES

\* open_category_manager: CategoryMaintenanceWindow.__init__ loads the
\* categories and fills the listbox; the window is modal
OpenCategoryManager ==
  /\ pc = "ready"
  /\ \E out \in LoadCategories(categories_file, DEFAULT_CATEGORIES) :
       /\ categories_file' = out.file
       /\ window' = [is_default |-> out.is_default,
                     list       |-> IF out.is_default THEN <<>> ELSE out.list,
                     listbox    |-> SortNames(out.list),
                     edits      |-> window.edits]
       /\ loaded' = [list |-> out.list, is_default |-> out.is_default,
                     first_use |-> out.first_use, failed |-> out.failed]
  /\ pc' = "category_window"
  /\ last' = [op |-> "open_categories", status |-> "done", target |-> <<>>]
  /\ UNCHANGED <<fileVars, migVars, shownVars, categories, DEFAULT_CATEGORIES,
                 filterVars, imageVars, launches, failures>>

\* add_category with the entry holding text
AddCategory(text) ==
  /\ pc = "category_window"
  /\ LET new_cat == Strip(text)
     IN  IF new_cat = "" \/ new_cat \in Range(WindowList)
         THEN /\ last' = [op |-> "add_category", status |-> "rejected", target |-> <<>>]
              /\ UNCHANGED windowVars
         ELSE /\ window.edits < MaxEdits
              /\ WindowEdited(Append(WindowList, new_cat))
              /\ last' = [op |-> "add_category", status |-> "done", target |-> <<>>]
  /\ UNCHANGED <<fileVars, migVars, pc, viewVars, filterVars, imageVars, launches, failures>>

\* delete_category with name selected in the listbox (the user confirms)
DeleteCategory(name) ==
  /\ pc = "category_window"
  /\ name \in Range(window.listbox)
  /\ window.edits < MaxEdits
  /\ WindowEdited(RemoveFirst(WindowList, name))
  /\ last' = [op |-> "delete_category", status |-> "done", target |-> <<>>]
  /\ UNCHANGED <<fileVars, migVars, pc, viewVars, filterVars, imageVars, launches, failures>>

\* save_and_close: save_categories(self.categories); on success the
\* callback update_categories runs and the window is destroyed
SaveAndClose ==
  /\ pc = "category_window"
  /\ \E out \in SaveCategories(categories_file, WindowList) :
       IF out.ok
       THEN /\ UpdateCategories(out.file)
            /\ window' = [NoWindow EXCEPT !.edits = window.edits]
            /\ pc' = "ready"
            /\ last' = [op |-> "save_categories", status |-> "ok", target |-> WindowList]
       ELSE /\ categories_file' = out.file
            /\ last' = [op |-> "save_categories", status |-> "error", target |-> WindowList]
            /\ UNCHANGED <<window, pc, categories, loaded>>
  /\ UNCHANGED <<fileVars, migVars, shownVars, DEFAULT_CATEGORIES, filterVars, imageVars,
                 launches, failures>>

\* the window is closed without saving (WM_DELETE_WINDOW: destroy)
CloseCategoryWindow ==
  /\ pc = "category_window"
  /\ window' = [NoWindow EXCEPT !.edits = window.edits]
  /\ pc' = "ready"
  /\ last' = [op |-> "close_categories", status |-> "done", target |-> <<>>]
  /\ UNCHANGED <<fileVars, migVars, viewVars, DEFAULT_CATEGORIES, filterVars, imageVars,
                 launches, failures>>

\* ------------------------------------------------------------ specification
Startup ==
  \/ MigrateCheck
  \/ MigrateBackup
  \/ MigrateOpen
  \/ MigrateWriteHeader
  \/ MigrateWriteRow
  \/ MigrateDone
  \/ InitCsv
  \/ InitialRefresh
  \/ Restart

\* the record handlers (add, edit, delete), on a ledger that needs no
\* migration
Next ==
  \/ MigrateCheck
  \/ InitCsv
  \/ InitialRefresh
  \/ \E e \in Entries : SaveNewRecord(e)
  \/ \E i \in 1..(MaxRows + 1), e \in Entries : SaveChanges(i, e)
  \/ \E i \in 1..(MaxRows + 1) : DeleteRecord(i)

Spec == Init /\ [][Next]_vars

\* new records, with and without an attached image
NextAppend ==
  \/ MigrateCheck
  \/ InitCsv
  \/ InitialRefresh
  \/ AttachInvoiceImage
  \/ \E e \in Entries : SaveNewRecord(e)

SpecAppend == Init /\ [][NextAppend]_vars

\* the date filter and the views it refreshes
NextView ==
  \/ MigrateCheck
  \/ InitCsv
  \/ InitialRefresh
  \/ \E start \in StartTexts, end \in EndTexts : FilterAndRefreshData(start, end)
  \/ ClearFilterAndRefresh

SpecView == InitView /\ [][NextView]_vars

\* the startup sequence, on any ledger file
SpecStartup == InitStartup /\ [][Startup]_vars

\* add, edit and delete with entries that pass and that fail validation,
\* from an empty store (no ledger file, or one with the header only)
InitValidation ==
  Launch({f \in FoundFiles : f.lines \in {<<>>, <<HEADERS>>} /\ (f.exists <=> f.lines # <<>>)},
         {WrittenCategoryFile})

NextValidation ==
  \/ MigrateCheck
  \/ InitCsv
  \/ InitialRefresh
  \/ \E e \in ValidationEntries : SaveNewRecord(e)
  \/ \E i \in 1..(MaxRows + 1), e \in ValidationEntries : SaveChanges(i, e)
  \/ \E i \in 1..(MaxRows + 1) : DeleteRecord(i)

SpecValidation == InitValidation /\ [][NextValidation]_vars

\* the category store and its maintenance window, on an empty ledger and
\* any category file
InitCategories == Launch({[exists |-> TRUE, lines |-> <<HEADERS>>]}, FoundCategoryFiles)

NextCategories ==
  \/ MigrateCheck
  \/ InitCsv
  \/ InitialRefresh
  \/ ClearFilterAndRefresh
  \/ OpenCategoryManager
  \/ \E text \in NewCategoryTexts : AddCategory(text)
  \/ \E name \in Range(DefaultCategories) \cup {"Pets"} : DeleteCategory(name)
  \/ SaveAndClose
  \/ CloseCategoryWindow

SpecCategories == InitCategories /\ [][NextCategories]_vars

\* ------------------------------------------------------------ claims
\* the least index of a record with the six field values of target
\* (structural equality), 0 when there is none
FirstWithValues(records, target) ==
  FirstTrue([i \in DOMAIN records |-> Values(records[i]) = Values(target)])

\* a store read_all reads into records: it begins with the current header
\* and every row's amount is a number
Readable(exists, lines) ==
  exists /\ lines # <<>> /\ lines[1] = HEADERS /\ ReadRecords(exists, lines).ok

\* after is before followed by one record with the values of record_data
AppendedTo(before, after, record_data) ==
  /\ Len(after) = Len(before) + 1
  /\ \A i \in DOMAIN before : after[i] = before[i]
  /\ Values(after[Len(after)]) = record_data

\* C1 as stated: from ANY store state, a successful append of a valid record
\* followed by read_all returns the previous records, in order, followed by
\* one record with the six values appended; a valid record is never
\* rejected (duplicate or not).
C1_AppendThenReadAnyStore ==
  [][/\ \A e \in Entries : (SaveNewRecord(e) /\ ValidEntry(e)) => last'.status # "invalid"
     /\ (last'.op = "append" /\ last'.status = "ok")
          => AppendedTo(ReadRecords(csvExists, csv).records,
                        ReadRecords(csvExists', csv').records, last'.target)]_vars

\* C1 amended: the same for every store that read_all reads (the current
\* header first, every row with a numeric amount).
C1_AppendThenReadReadableStore ==
  [][/\ \A e \in Entries : (SaveNewRecord(e) /\ ValidEntry(e)) => last'.status # "invalid"
     /\ (last'.op = "append" /\ last'.status = "ok" /\ Readable(csvExists, csv))
          => AppendedTo(ReadRecords(csvExists, csv).records,
                        ReadRecords(csvExists', csv').records, last'.target)]_vars

\* a record was appended to a readable store that already held a record
\* with the same six values, and both are read back
C1_DuplicateAppended ==
  /\ last.op = "append" /\ last.status = "ok"
  /\ Readable(csvExists, csv)
  /\ LET records == ReadRecords(csvExists, csv).records
     IN  /\ Len(records) >= 2
         /\ Values(records[Len(records)]) = last.target
         /\ \E i \in 1..(Len(records) - 1) : Values(records[i]) = last.target

\* C2: a successful update replaces the first record with the six values of
\* old_record by new_record and leaves every other record, later equals of
\* old_record included, at its position with its values; the count is
\* unchanged and read_all yields the new values at that position.
C2_UpdateReplacesFirstMatch ==
  [][(last'.op = "update" /\ last'.status = "ok")
       => LET before == ReadRecords(csvExists, csv).records
              after  == ReadRecords(csvExists', csv').records
              p      == FirstWithValues(before, last'.target)
          IN  /\ p # 0
              /\ Len(after) = Len(before)
              /\ \A i \in DOMAIN before : i # p => Values(after[i]) = Values(before[i])
              /\ Values(after[p]) = Values(last'.new)]_vars

\* an update gave new values to a record of which the store holds another
\* equal one, which is still there
C2_UpdatedOneOfTwoEqual ==
  /\ last.op = "update" /\ last.status = "ok"
  /\ Values(last.new) # Values(last.target)
  /\ LET records == ReadRecords(csvExists, csv).records
     IN  /\ \E i \in DOMAIN records : Values(records[i]) = Values(last.target)
         /\ \E i \in DOMAIN records : Values(records[i]) = Values(last.new)

\* C3: a successful delete removes exactly the first record with the six
\* values of the given record; the count drops by one and the other records,
\* equal ones included, keep their values and order.
C3_DeleteRemovesFirstMatch ==
  [][(last'.op = "delete" /\ last'.status = "ok")
       => LET before == ReadRecords(csvExists, csv).records
              after  == ReadRecords(csvExists', csv').records
              p      == FirstWithValues(before, last'.target)
          IN  /\ p # 0
              /\ Len(after) = Len(before) - 1
              /\ \A i \in DOMAIN after :
                   Values(after[i]) = Values(RemoveAt(before, p)[i])]_vars

\* a delete removed one of several equal records, another is still stored
\* next to a different record
C3_DeletedOneOfTwoEqual ==
  /\ last.op = "delete" /\ last.status = "ok"
  /\ LET records == ReadRecords(csvExists, csv).records
     IN  /\ \E i \in DOMAIN records : Values(records[i]) = Values(last.target)
         /\ \E i \in DOMAIN records : Values(records[i]) # Values(last.target)

\* C4: when update or delete finds no record with the six values of its
\* target (also when the read of the store failed and gave no records), it
\* reports "not found" and the store is what it was before the call.
C4_NotFoundLeavesStore ==
  [][(/\ last'.op \in {"update", "delete"}
      /\ last'.status # "invalid"
      /\ FirstWithValues(ReadRecords(csvExists, csv).records, last'.target) = 0)
       => (last'.status = "not_found" /\ csv' = csv /\ csvExists' = csvExists)]_vars

\* a not-found on a store that has rows but whose read fails
C4_NotFoundOnUnreadableStore ==
  /\ last.op \in {"update", "delete"} /\ last.status = "not_found"
  /\ csvExists /\ Len(csv) >= 2
  /\ ~ReadRecords(csvExists, csv).ok

\* C5: in every state of a migration in which the main file differs from
\* its pre-migration content, a backup holds the pre-migration content.
C5_BackupBeforeRewrite ==
  (preMigration.running /\ csv # preMigration.lines) => preMigration.lines \in backups

\* the migrator has returned after a rewrite that failed part-way
C5_RewriteFailedPartWay ==
  /\ preMigration.running /\ ~preMigration.done
  /\ pc = "init_csv"
  /\ csv # preMigration.lines

\* new is old under the current header: as many rows in the same order,
\* every legacy field value in its column, the defaults in the new columns
Migrated(old, new) ==
  /\ Len(new) = Len(old)
  /\ new[1] = HEADERS
  /\ \A i \in 2..Len(old) :
       /\ Len(new[i]) = Len(HEADERS)
       /\ \A j \in DOMAIN old[1] : new[i][LastIndex(HEADERS, old[1][j])] = old[i][j]
       /\ ("kind" \notin Range(old[1]) => new[i][LastIndex(HEADERS, "kind")] = "Expense")
       /\ ("image" \notin Range(old[1]) => new[i][LastIndex(HEADERS, "image")] = "")

\* C6: a successful migration leaves the rows of the legacy store, in
\* order, under the current header, every field value unchanged, kind
\* "Expense" where the legacy layout had no kind and image "" where it had
\* no image.
C6_MigrationPreservesRows ==
  preMigration.done => Migrated(preMigration.lines, csv)

\* a store of two rows without kind and image columns was migrated
C6_MigratedLegacyRows ==
  /\ preMigration.done
  /\ Len(preMigration.lines) >= 3
  /\ "kind" \notin Range(preMigration.lines[1])
  /\ "image" \notin Range(preMigration.lines[1])

\* C7: the migrator run on a store whose header has the current column
\* count returns without changing the main file and without a backup (so
\* every run after a successful migration leaves the store as it is).
C7_MigratorNoOpOnCurrent ==
  [][(pc = "start" /\ csvExists /\ csv # <<>> /\ Len(csv[1]) = Len(HEADERS))
       => (pc' = "init_csv" /\ csv' = csv /\ csvExists' = csvExists
           /\ backups' = backups)]_vars

\* the migrator has run again on the store a migration of the launch
\* before produced
C7_RunAgainAfterMigration ==
  /\ launches >= 2
  /\ pc = "init_csv"
  /\ ~preMigration.running
  /\ csv # <<>> /\ csv[1] = HEADERS /\ Len(csv) >= 2
  /\ \E b \in backups : Migrated(b, csv)

\* d1 <= record.date <= d2, an omitted bound ("") imposing nothing
InBounds(record, d1, d2) ==
  /\ (d1 = "" \/ Strptime(d1) <= Strptime(record["date"]))
  /\ (d2 = "" \/ Strptime(record["date"]) <= Strptime(d2))

\* C8: a filter with bounds d1 <= d2 over records with valid dates shows
\* exactly the records with d1 <= date <= d2 in their order in the store
\* (all of them when both bounds are omitted) and leaves the store alone.
C8_FilterInclusive ==
  [][(last'.op = "filter" /\ last'.status = "ok")
       => LET d1 == start_date_entry'
              d2 == end_date_entry'
          IN  /\ filtered_records' =
                   SelectSeq(ReadRecords(csvExists, csv).records,
                             LAMBDA r : InBounds(r, d1, d2))
              /\ csv' = csv /\ csvExists' = csvExists]_vars

\* a filter kept a record dated on its start bound and dropped another
C8_RecordOnBound ==
  /\ last.op = "filter" /\ last.status = "ok"
  /\ start_date_entry # ""
  /\ Len(filtered_records) < Len(ReadRecords(csvExists, csv).records)
  /\ \E i \in DOMAIN filtered_records :
       Strptime(filtered_records[i]["date"]) = Strptime(start_date_entry)

\* C9: a filter with start > end reports the error, leaves the store alone
\* and has the views show all records of the store.
C9_StartAfterEndShowsAll ==
  [][(last'.op = "filter" /\ last'.status = "abort")
       => /\ csv' = csv /\ csvExists' = csvExists
          /\ filtered_records' = ReadRecords(csvExists, csv).records
          /\ tree' = RefreshRecordsView(ReadRecords(csvExists, csv).records)]_vars

\* the sum of a sequence of numbers, without rounding
RECURSIVE ExactSum(_)
ExactSum(xs) == IF xs = <<>> THEN 0 ELSE Head(xs) + ExactSum(Tail(xs))

\* the amounts of the records of a kind
AmountsOf(records, kind) ==
  LET of_kind == SelectSeq(records, LAMBDA r : r["kind"] = kind)
  IN  [i \in DOMAIN of_kind |-> of_kind[i]["amount"]]

\* the by-category mapping has exactly the categories of the Expense records
PieKeysExact(records) ==
  /\ {pie[i].key : i \in DOMAIN pie} =
       {records[i]["category"] : i \in {j \in DOMAIN records : records[j]["kind"] = "Expense"}}
  /\ \A i, j \in DOMAIN pie : pie[i].key = pie[j].key => i = j

\* C10 as stated: the totals are the sums by kind, the balance their
\* difference, the by-category mapping has the categories of the Expense
\* records and its values sum to expense_total.
C10_TotalsAndCategories ==
  pc = "ready" =>
    /\ summary.income = PySum(AmountsOf(filtered_records, "Income"))
    /\ summary.expense = PySum(AmountsOf(filtered_records, "Expense"))
    /\ summary.balance = FloatSub(summary.income, summary.expense)
    /\ PieKeysExact(filtered_records)
    /\ PySum([i \in DOMAIN pie |-> pie[i].value]) = summary.expense

\* no addition over these records rounds
SumsExact(records) ==
  /\ ExactSum(AmountsOf(records, "Income")) <= Pow2(MantissaBits)
  /\ ExactSum(AmountsOf(records, "Expense")) <= Pow2(MantissaBits)

\* C10 amended: the balance is the float difference of the totals and the
\* mapping has exactly the categories of the Expense records; when no
\* addition rounds, the totals are the exact sums by kind, the balance their
\* exact difference, and the values of the mapping sum to expense_total.
C10_TotalsAndCategoriesExact ==
  pc = "ready" =>
    /\ summary.balance = FloatSub(summary.income, summary.expense)
    /\ PieKeysExact(filtered_records)
    /\ SumsExact(filtered_records) =>
         /\ summary.income = ExactSum(AmountsOf(filtered_records, "Income"))
         /\ summary.expense = ExactSum(AmountsOf(filtered_records, "Expense"))
         /\ summary.balance = summary.income - summary.expense
         /\ ExactSum([i \in DOMAIN pie |-> pie[i].value]) = summary.expense

\* income and two expense categories are shown, and no addition rounded
C10_TwoCategoriesAndIncome ==
  /\ pc = "ready"
  /\ SumsExact(filtered_records)
  /\ Len(pie) >= 2
  /\ summary.income > 0
  /\ summary.balance < 0

\* the records of a month
InMonth(records, m) == SelectSeq(records, LAMBDA r : Month(r["date"]) = m)

\* the monthly view has one row per month of the records, the latest month
\* first, each with the float sums of its month and their difference
MonthlyRows(records) ==
  /\ {monthly[i].month : i \in DOMAIN monthly} = {Month(records[i]["date"]) : i \in DOMAIN records}
  /\ \A i \in DOMAIN monthly :
       /\ monthly[i].income = PySum(AmountsOf(InMonth(records, monthly[i].month), "Income"))
       /\ monthly[i].expense = PySum(AmountsOf(InMonth(records, monthly[i].month), "Expense"))
       /\ monthly[i].balance = FloatSub(monthly[i].income, monthly[i].expense)
  /\ \A i, j \in DOMAIN monthly :
       i < j => MonthRank(monthly[i].month) > MonthRank(monthly[j].month)

\* C11 as stated: by_month has one entry per 7-character date prefix with
\* the sums of that month's income and expense and their difference, the
\* per-month incomes and expenses sum to the totals over the same records,
\* and the latest-first view is in strictly descending key order.
C11_ByMonth ==
  pc = "ready" =>
    /\ MonthlyRows(filtered_records)
    /\ PySum([i \in DOMAIN monthly |-> monthly[i].income]) = summary.income
    /\ PySum([i \in DOMAIN monthly |-> monthly[i].expense]) = summary.expense

\* C11 amended: the entries, their sums and the order as stated; the
\* per-month incomes and expenses sum to the totals when no addition rounds,
\* and are then the exact sums of their months.
C11_ByMonthExact ==
  pc = "ready" =>
    /\ MonthlyRows(filtered_records)
    /\ SumsExact(filtered_records) =>
         /\ ExactSum([i \in DOMAIN monthly |-> monthly[i].income]) = summary.income
         /\ ExactSum([i \in DOMAIN monthly |-> monthly[i].expense]) = summary.expense
         /\ \A i \in DOMAIN monthly :
              /\ monthly[i].income =
                   ExactSum(AmountsOf(InMonth(filtered_records, monthly[i].month), "Income"))
              /\ monthly[i].expense =
                   ExactSum(AmountsOf(InMonth(filtered_records, monthly[i].month), "Expense"))
              /\ monthly[i].balance = monthly[i].income - monthly[i].expense

\* three records in two months, income among them, and no addition rounded
C11_TwoMonthsThreeRecords ==
  /\ pc = "ready"
  /\ SumsExact(filtered_records)
  /\ Len(filtered_records) = 3
  /\ Len(monthly) = 2
  /\ \E i \in DOMAIN monthly : monthly[i].income > 0
  /\ \E i \in DOMAIN monthly : monthly[i].expense > 1

\* names in lexical order, equal neighbours allowed
SortedLexically(names) ==
  \A i, j \in DOMAIN names : i < j => NameRank(names[i]) <= NameRank(names[j])

\* names in lexical order without a duplicate
SortedDuplicateFree(names) ==
  \A i, j \in DOMAIN names : i < j => NameRank(names[i]) < NameRank(names[j])

\* C12: every load returns the category names sorted lexically, the
\* first-use call (no persisted set) included.
C12_LoadReturnsSorted ==
  SortedLexically(loaded.list)

\* C13: after a successful save(C) the persisted list holds exactly the
\* distinct names of C in sorted order, nothing else, and the load that
\* follows returns that sorted duplicate-free list.
C13_SaveReplacesSorted ==
  [][(last'.op = "save_categories" /\ last'.status = "ok")
       => /\ categories_file'.exists
          /\ Range(categories_file'.lines) = Range(last'.target)
          /\ SortedDuplicateFree(categories_file'.lines)
          /\ ~loaded'.is_default
          /\ loaded'.list = categories_file'.lines]_vars

\* a list with a duplicate and out of order was saved, the name the user
\* added among them
C13_SavedUnsortedDuplicates ==
  /\ last.op = "save_categories" /\ last.status = "ok"
  /\ ~SortedLexically(last.target)
  /\ \E i, j \in DOMAIN last.target : i # j /\ last.target[i] = last.target[j]
  /\ "Pets" \in Range(categories_file.lines)

\* C19: whatever was loaded, saved, added or removed before, the set load
\* substitutes or seeds when the persisted set is missing or unreadable is
\* the original six defaults.
C19_DefaultsFixed ==
  loaded.is_default => Range(loaded.list) = Range(DefaultCategories)

\* a > 0 of a float
FloatGt(a, b) == a # NaN /\ b # NaN /\ a > b

\* a persisted row as the spec wants it: six fields, a valid date, kind and
\* category not empty, a numeric amount above zero
WellFormedRow(row) ==
  /\ Len(row) = Len(HEADERS)
  /\ Strptime(row[1]) # 0
  /\ row[2] # "" /\ row[3] # ""
  /\ IsFloatText(row[4]) /\ FloatGt(FloatOf(row[4]), 0)

\* C14: an add or edit whose input fails validation leaves the store as it
\* is, so from an empty initialized store, whatever is added, updated and
\* deleted (no I/O failing), every persisted record has a valid date, a kind,
\* a category and an amount > 0.
C14_PersistedRecordsValid ==
  (pc = "ready" /\ failures = 0) =>
    /\ csvExists /\ csv # <<>> /\ csv[1] = HEADERS
    /\ \A i \in 2..Len(csv) : WellFormedRow(csv[i])

\* how many of the records have the six values of target
CountWithValues(records, target) ==
  Cardinality({i \in DOMAIN records : Values(records[i]) = Values(target)})

\* C15: when delete matches a record that names an image, the removal of
\* the image file is attempted, and whether it succeeds or not the record
\* is removed (the rewrite not failing); when the matched record names no
\* image, no image file is removed.
C15_ImageRemovalBestEffort ==
  [][(/\ last'.op = "delete"
      /\ FirstWithValues(ReadRecords(csvExists, csv).records, last'.target) # 0)
       => /\ IF last'.target["image"] # ""
             THEN /\ last'.image \in {"removed", "failed"}
                  /\ last'.image = "removed" =>
                       invoice_files' = invoice_files \ {last'.target["image"]}
             ELSE last'.image = "none" /\ invoice_files' = invoice_files
          /\ failures' = failures =>
               /\ last'.status = "ok"
               /\ Len(ReadRecords(csvExists', csv').records) =
                    Len(ReadRecords(csvExists, csv).records) - 1
               /\ CountWithValues(ReadRecords(csvExists', csv').records, last'.target) =
                    CountWithValues(ReadRecords(csvExists, csv).records, last'.target) - 1]_vars

\* a record was deleted although the removal of its image failed: the
\* image file is still there
C15_DeletedWithImageLeft ==
  /\ last.op = "delete" /\ last.status = "ok"
  /\ last.image = "failed"
  /\ last.target["image"] \in invoice_files
  /\ CountWithValues(ReadRecords(csvExists, csv).records, last.target) = 0

\* C17: an update changes only date, kind, category, amount and note: the
\* updated record has the image reference the matched record had.
C17_UpdateKeepsImage ==
  [][(last'.op = "update" /\ last'.status = "ok")
       => LET before == ReadRecords(csvExists, csv).records
              after  == ReadRecords(csvExists', csv').records
              p      == FirstWithValues(before, last'.target)
          IN  after[p]["image"] = before[p]["image"]]_vars

\* C18: a delete removes an image file only if it removes the record that
\* names it: no delete (a failing rewrite included) leaves the matched
\* record in the store with its image file removed.
C18_ImageRemovedOnlyWithRecord ==
  [][(last'.op = "delete" /\ last'.image = "removed")
       => CountWithValues(ReadRecords(csvExists', csv').records, last'.target) <
            CountWithValues(ReadRecords(csvExists, csv).records, last'.target)]_vars

\* C16: after the startup sequence (the migrator, then init_csv, no I/O
\* failing) and before the first read, whatever ledger file was found
\* (none, an empty one, a legacy or a current header), the file exists and
\* its first row is the current six-column header.
C16_HeaderAfterStartup ==
  (pc = "refresh" /\ failures = 0) => (csvExists /\ csv # <<>> /\ csv[1] = HEADERS)

=============================================================================
